---- MODULE Spec2Model ----
(***************************************************************************)
(* A model of tax_streamlit.py: the three tax calculators                  *)
(* (compute_federal_tax, compute_amt_tax, compute_ca_tax) and the          *)
(* dashboard script that reads eight sidebar widgets and derives the       *)
(* federal and California figures from them.                               *)
(*                                                                         *)
(* Arithmetic.  The program computes in floating point on decimal rates.   *)
(* The model computes the same expressions exactly, in fixed point on      *)
(* whole-dollar incomes:                                                   *)
(*   - a bracket or AMT rate r is the integer 1000 * r (0.093 is 93), so   *)
(*     the calculators return thousandths of a dollar;                     *)
(*   - the script's currency figures are in ten-thousandths of a dollar    *)
(*     (the CA withholding rate 0.1023 needs four decimals), so a          *)
(*     calculator's result is multiplied by 10 when the script stores it,  *)
(*     a whole-dollar amount by 10000, and a withholding rate r is the     *)
(*     integer 10000 * r.                                                  *)
(* Floating-point rounding (below 1e-9 dollar at these magnitudes) is not  *)
(* modelled.                                                               *)
(***************************************************************************)
EXTENDS Integers, Sequences, FiniteSets, TLC

Max(a, b) == IF a >= b THEN a ELSE b

Min(a, b) == IF a <= b THEN a ELSE b

\* A calculator result (thousandths of a dollar) as a script figure.
FromMilli(t) == t * 10

\* A whole-dollar amount as a script figure (ten-thousandths of a dollar).
FromDollars(d) == d * 10000

(***************************************************************************)
(* compute_federal_tax                                                     *)
(***************************************************************************)

\* brackets of the is_married branch: (bracket_limit, rate)
FederalMarriedBrackets ==
    << <<20550, 100>>, <<83550, 120>>, <<178150, 220>>,
       <<340100, 240>>, <<431900, 320>>, <<647850, 350>> >>

\* brackets of the else branch: (bracket_limit, rate)
FederalSingleBrackets ==
    << <<11000, 100>>, <<44725, 120>>, <<95375, 220>>,
       <<182100, 240>>, <<231250, 320>>, <<578125, 350>> >>

federal_brackets(is_married) ==
    IF is_married THEN FederalMarriedBrackets ELSE FederalSingleBrackets

federal_top_rate(is_married) == IF is_married THEN 370 ELSE 370

\* The for loop of compute_federal_tax from its i-th pair on.  The result
\* says whether the loop returned from inside (the else branch) or ran out.
RECURSIVE federal_loop(_, _, _, _, _)
federal_loop(brackets, i, taxable_income, tax, lower_limit) ==
    IF i > Len(brackets)
    THEN [returned |-> FALSE, tax |-> tax, lower_limit |-> lower_limit]
    ELSE LET bracket_limit == brackets[i][1]
             rate == brackets[i][2]
         IN  IF taxable_income > bracket_limit
             THEN federal_loop(brackets, i + 1, taxable_income,
                               tax + (bracket_limit - lower_limit) * rate,
                               bracket_limit)
             ELSE [returned |-> TRUE,
                   tax |-> tax + (taxable_income - lower_limit) * rate,
                   lower_limit |-> lower_limit]

\* A walk that taxes the whole income, not the remainder above the last
\* boundary, at top_rate.
federal_walk_top_from_zero(brackets, top_rate, taxable_income) ==
    LET l == federal_loop(brackets, 1, taxable_income, 0, 0)
    IN  IF l.returned
        THEN l.tax
        ELSE IF taxable_income > l.lower_limit
             THEN l.tax + taxable_income * top_rate
             ELSE l.tax

\* The body of compute_federal_tax after the table is chosen.
federal_walk(brackets, top_rate, taxable_income) ==
    LET l == federal_loop(brackets, 1, taxable_income, 0, 0)
    IN  IF l.returned
        THEN l.tax
        ELSE IF taxable_income > l.lower_limit
             THEN l.tax + (taxable_income - l.lower_limit) * top_rate
             ELSE l.tax

compute_federal_tax(taxable_income, is_married) ==
    federal_walk(federal_brackets(is_married), federal_top_rate(is_married),
                 taxable_income)

(***************************************************************************)
(* compute_amt_tax                                                         *)
(***************************************************************************)

threshold == 200000

\* An AMT schedule that taxes the whole income at 28% above the threshold.
compute_amt_tax_flat28(amt_income) ==
    IF amt_income <= 0
    THEN 0
    ELSE IF amt_income <= threshold
         THEN amt_income * 260
         ELSE amt_income * 280

compute_amt_tax(amt_income) ==
    IF amt_income <= 0
    THEN 0
    ELSE IF amt_income <= threshold
         THEN amt_income * 260
         ELSE threshold * 260 + (amt_income - threshold) * 280

(***************************************************************************)
(* compute_ca_tax                                                          *)
(***************************************************************************)

\* brackets of the is_married branch
CAMarriedBrackets ==
    << <<18650, 10>>, <<44214, 20>>, <<69784, 40>>, <<96870, 60>>,
       <<122430, 80>>, <<625372, 93>>, <<750442, 103>>, <<1250738, 113>> >>

\* brackets of the else branch
CASingleBrackets ==
    << <<9324, 10>>, <<22107, 20>>, <<34892, 40>>, <<48435, 60>>,
       <<61215, 80>>, <<312686, 93>>, <<375221, 103>>, <<625369, 113>> >>

ca_brackets(is_married) ==
    IF is_married THEN CAMarriedBrackets ELSE CASingleBrackets

\* A single-filer top rate below the last bracket's rate.
ca_top_rate_low(is_married) == IF is_married THEN 123 ELSE 103

ca_top_rate(is_married) == IF is_married THEN 123 ELSE 123

\* The for loop of compute_ca_tax from its i-th pair on.
RECURSIVE ca_loop(_, _, _, _, _)
ca_loop(brackets, i, taxable_income, tax, lower_limit) ==
    IF i > Len(brackets)
    THEN [returned |-> FALSE, tax |-> tax, lower_limit |-> lower_limit]
    ELSE LET bracket_limit == brackets[i][1]
             rate == brackets[i][2]
         IN  IF taxable_income > bracket_limit
             THEN ca_loop(brackets, i + 1, taxable_income,
                          tax + (bracket_limit - lower_limit) * rate,
                          bracket_limit)
             ELSE [returned |-> TRUE,
                   tax |-> tax + (taxable_income - lower_limit) * rate,
                   lower_limit |-> lower_limit]

\* A walk that stops after the loop: the remainder above the last boundary
\* is not taxed.
ca_walk_no_top(brackets, top_rate, taxable_income) ==
    LET l == ca_loop(brackets, 1, taxable_income, 0, 0)
    IN  l.tax

\* The body of compute_ca_tax after the table is chosen.
ca_walk(brackets, top_rate, taxable_income) ==
    LET l == ca_loop(brackets, 1, taxable_income, 0, 0)
    IN  IF l.returned
        THEN l.tax
        ELSE IF taxable_income > l.lower_limit
             THEN l.tax + (taxable_income - l.lower_limit) * top_rate
             ELSE l.tax

compute_ca_tax(taxable_income, is_married) ==
    ca_walk(ca_brackets(is_married), ca_top_rate(is_married), taxable_income)

(***************************************************************************)
(* The dashboard script                                                    *)
(*                                                                         *)
(* Incomes, unit counts, prices and deductions are whole dollars; tax,     *)
(* credit-net, withholding and balance figures are ten-thousandths of a    *)
(* dollar.                                                                 *)
(***************************************************************************)

VARIABLES
    w,        \* the sidebar widgets' values (is_married, regular_income, ...)
    g,        \* the script's globals after its last run (rsu_income, ...)
    refused,  \* the widget that refused the last entry, or "none"
    error,    \* the exception the script's last run raised, kind "none" if none
    call      \* the last direct call of a calculator: fn, argument, result

vars == <<w, g, refused, error, call>>

\* A number_input that takes any entry.
min_value_none == 0 - 1000000

\* min_value of every number_input
min_value == 0

\* How many hundred-thousands of regular income are entered.
MaxIncomeK == 3

\* How many thousands of RSUs or ISOs are entered.
MaxUnitsK == 1

\* How many multiples of 5,000 of either AMT credit are entered.
MaxCreditK == 1

\* What is typed into each number_input; a negative entry is below min_value.
RegularIncomeEntries ==
    {-1000, 0, 100000, 150000} \cup {k * 100000 : k \in 0..MaxIncomeK}

UnitCountEntries == {-1} \cup {k * 1000 : k \in 0..MaxUnitsK}

FmvEntries == {-1, 0, 50, 60}

StrikeEntries == {-1, 0, 10, 100}

CreditEntries == {-100} \cup {k * 5000 : k \in 0..MaxCreditK}

\* rsu_income = rsu_count * fmv
rsu_income(n) == n.rsu_count * n.fmv

\* iso_bargain_element = max(0, fmv - iso_strike_price)
iso_bargain_element(n) == Max(0, n.fmv - n.iso_strike_price)

\* iso_adjustment = iso_count * iso_bargain_element
iso_adjustment(n) == n.iso_count * n.iso_bargain_element

federal_standard_deduction(n) == IF n.is_married THEN 28000 ELSE 14000

\* The two exemptions the wrong way round.
amt_exemption_swapped(n) == IF n.is_married THEN 81000 ELSE 126500

amt_exemption(n) == IF n.is_married THEN 126500 ELSE 81000

\* A regular-tax base that takes in the ISO adjustment.
federal_taxable_income_with_iso(n) ==
    Max(0, (n.regular_income + n.rsu_income + n.iso_adjustment)
           - n.federal_standard_deduction)

federal_taxable_income(n) ==
    Max(0, (n.regular_income + n.rsu_income) - n.federal_standard_deduction)

regular_federal_tax(n) ==
    FromMilli(compute_federal_tax(n.federal_taxable_income, n.is_married))

amt_income(n) ==
    Max(0, (n.regular_income + n.rsu_income + n.iso_adjustment)
           - n.amt_exemption)

amt_tax(n) == FromMilli(compute_amt_tax(n.amt_income))

\* An AMT excess that forgets the federal AMT credit.
additional_federal_tax_no_credit(n) ==
    Max(0, n.amt_tax - n.regular_federal_tax)

additional_federal_tax(n) ==
    Max(0, n.amt_tax - FromDollars(n.amt_credit) - n.regular_federal_tax)

total_federal_tax(n) == n.regular_federal_tax + n.additional_federal_tax

\* withholding_regular = regular_income * 0.22
withholding_regular(n) == n.regular_income * 2200

\* withholding_rsu = rsu_income * 0.37
withholding_rsu(n) == n.rsu_income * 3700

federal_withholding(n) == n.withholding_regular + n.withholding_rsu

\* A balance due floored at zero.
additional_federal_due_clamped(n) ==
    Max(0, n.total_federal_tax - n.federal_withholding)

additional_federal_due(n) == n.total_federal_tax - n.federal_withholding

ca_standard_deduction(n) == IF n.is_married THEN 10000 ELSE 5000

ca_taxable_income(n) ==
    Max(0, (n.regular_income + n.rsu_income + n.iso_adjustment)
           - n.ca_standard_deduction)

ca_tax_liability(n) ==
    FromMilli(compute_ca_tax(n.ca_taxable_income, n.is_married))

ca_tax_liability_after_credit(n) ==
    Max(0, n.ca_tax_liability - FromDollars(n.ca_amt_credit))

\* ca_withholding = (regular_income + rsu_income) * 0.1023
ca_withholding(n) == (n.regular_income + n.rsu_income) * 1023

additional_state_due(n) == n.ca_tax_liability_after_credit - n.ca_withholding

\* overall_data: additional_federal_due + additional_state_due
total_additional_due(n) == n.additional_federal_due + n.additional_state_due

\* The Calculations section, statement by statement: each operator adds to
\* the namespace n the globals its statements assign, reading the ones
\* assigned above it.
AssignIncomes(n) ==
    n @@ [rsu_income |-> rsu_income(n),
          iso_bargain_element |-> iso_bargain_element(n)]

AssignIsoAndParameters(n) ==
    n @@ [iso_adjustment |-> iso_adjustment(n),
          federal_standard_deduction |-> federal_standard_deduction(n),
          amt_exemption |-> amt_exemption(n)]

AssignFederalTaxableIncome(n) ==
    n @@ [federal_taxable_income |-> federal_taxable_income(n)]

AssignRegularTaxAndAmtIncome(n) ==
    n @@ [regular_federal_tax |-> regular_federal_tax(n),
          amt_income |-> amt_income(n)]

AssignAmtTax(n) == n @@ [amt_tax |-> amt_tax(n)]

AssignAdditionalFederalTax(n) ==
    n @@ [additional_federal_tax |-> additional_federal_tax(n)]

AssignTotalAndWithholdings(n) ==
    n @@ [total_federal_tax |-> total_federal_tax(n),
          withholding_regular |-> withholding_regular(n),
          withholding_rsu |-> withholding_rsu(n)]

AssignFederalWithholding(n) ==
    n @@ [federal_withholding |-> federal_withholding(n)]

AssignFederalDue(n) ==
    n @@ [additional_federal_due |-> additional_federal_due(n),
          ca_standard_deduction |-> ca_standard_deduction(n)]

AssignCaTaxableIncome(n) ==
    n @@ [ca_taxable_income |-> ca_taxable_income(n)]

AssignCaTaxLiability(n) == n @@ [ca_tax_liability |-> ca_tax_liability(n)]

AssignCaAfterCredit(n) ==
    n @@ [ca_tax_liability_after_credit |-> ca_tax_liability_after_credit(n),
          ca_withholding |-> ca_withholding(n)]

AssignStateDue(n) == n @@ [additional_state_due |-> additional_state_due(n)]

AssignOverall(n) == n @@ [total_additional_due |-> total_additional_due(n)]

\* The Calculations section run top to bottom on the widgets' values.
Calculations(widgets) ==
    AssignOverall(AssignStateDue(AssignCaAfterCredit(AssignCaTaxLiability(
    AssignCaTaxableIncome(AssignFederalDue(AssignFederalWithholding(
    AssignTotalAndWithholdings(AssignAdditionalFederalTax(AssignAmtTax(
    AssignRegularTaxAndAmtIncome(AssignFederalTaxableIncome(
    AssignIsoAndParameters(AssignIncomes(widgets))))))))))))))

\* The widgets' default values (value=False, value=0, value=0.0).
DefaultWidgets ==
    [is_married |-> FALSE, regular_income |-> 0, rsu_count |-> 0,
     iso_count |-> 0, fmv |-> 0, iso_strike_price |-> 0, amt_credit |-> 0,
     ca_amt_credit |-> 0]

NoError == [kind |-> "none", field |-> "none"]

NoCall == [fn |-> "none", is_married |-> FALSE, arg |-> 0, result |-> 0]

Init ==
    /\ w = DefaultWidgets
    /\ g = Calculations(DefaultWidgets)
    /\ refused = "none"
    /\ error = NoError
    /\ call = NoCall

\* st.sidebar.number_input(..., min_value=...): an entry below min_value is
\* not taken and the script does not run again; any other entry becomes the
\* widget's value and the whole script runs again on the new values.  No
\* statement of the script raises, so a run ends with no exception.
number_input(field, raw) ==
    /\ IF raw >= min_value
       THEN /\ w' = [w EXCEPT ![field] = raw]
            /\ g' = Calculations(w')
            /\ refused' = "none"
            /\ error' = NoError
       ELSE /\ refused' = field
            /\ UNCHANGED <<w, g, error>>
    /\ UNCHANGED call

\* st.sidebar.checkbox("Are you married? ..."): toggling reruns the script.
EnterIsMarried ==
    /\ w' = [w EXCEPT !.is_married = ~w.is_married]
    /\ g' = Calculations(w')
    /\ refused' = "none"
    /\ error' = NoError
    /\ UNCHANGED call

EnterRegularIncome ==
    \E raw \in RegularIncomeEntries : number_input("regular_income", raw)

EnterRsuCount == \E raw \in UnitCountEntries : number_input("rsu_count", raw)

EnterIsoCount == \E raw \in UnitCountEntries : number_input("iso_count", raw)

EnterFmv == \E raw \in FmvEntries : number_input("fmv", raw)

EnterIsoStrikePrice ==
    \E raw \in StrikeEntries : number_input("iso_strike_price", raw)

EnterAmtCredit == \E raw \in CreditEntries : number_input("amt_credit", raw)

EnterCaAmtCredit ==
    \E raw \in CreditEntries : number_input("ca_amt_credit", raw)

Next ==
    \/ EnterIsMarried
    \/ EnterRegularIncome
    \/ EnterRsuCount
    \/ EnterIsoCount
    \/ EnterFmv
    \/ EnterIsoStrikePrice
    \/ EnterAmtCredit
    \/ EnterCaAmtCredit

Spec == Init /\ [][Next]_vars

(***************************************************************************)
(* The calculators called on their own                                     *)
(***************************************************************************)

\* How many multiples of 25,000 are among the incomes the calculators get.
MaxGridK == 52

Edges(brackets) == {brackets[i][1] : i \in 1..Len(brackets)}

AllEdges ==
    Edges(FederalMarriedBrackets) \cup Edges(FederalSingleBrackets)
        \cup Edges(CAMarriedBrackets) \cup Edges(CASingleBrackets)
        \cup {threshold}

\* Every boundary, the dollar below it and the dollar above it; the incomes
\* of the worked examples; a grid over the whole range of the tables.
TaxableIncomes ==
    {0, 1, 100000, 186000, 300000, 600000}
        \cup {b + d : b \in AllEdges, d \in {-1, 0, 1}}
        \cup {k * 25000 : k \in 0..MaxGridK}

AmtIncomes == TaxableIncomes \cup {0 - x : x \in {1, 1000, 81000}}

CallFederal ==
    /\ \E is_married \in BOOLEAN, taxable_income \in TaxableIncomes :
           call' = [fn |-> "compute_federal_tax", is_married |-> is_married,
                    arg |-> taxable_income,
                    result |-> compute_federal_tax(taxable_income, is_married)]
    /\ UNCHANGED <<w, g, refused, error>>

CallCA ==
    /\ \E is_married \in BOOLEAN, taxable_income \in TaxableIncomes :
           call' = [fn |-> "compute_ca_tax", is_married |-> is_married,
                    arg |-> taxable_income,
                    result |-> compute_ca_tax(taxable_income, is_married)]
    /\ UNCHANGED <<w, g, refused, error>>

CallAmt ==
    /\ \E amt_inc \in AmtIncomes :
           call' = [fn |-> "compute_amt_tax", is_married |-> FALSE,
                    arg |-> amt_inc, result |-> compute_amt_tax(amt_inc)]
    /\ UNCHANGED <<w, g, refused, error>>

NextCalc ==
    \/ CallFederal
    \/ CallCA
    \/ CallAmt

SpecCalc == Init /\ [][NextCalc]_vars

(***************************************************************************)
(* Properties of the calculators (checked under SpecCalc)                  *)
(***************************************************************************)

IsBracketCall == call.fn \in {"compute_federal_tax", "compute_ca_tax"}

\* The table and top rate the call's function chooses for its is_married.
ScheduleOf(c) ==
    IF c.fn = "compute_federal_tax"
    THEN federal_brackets(c.is_married)
    ELSE ca_brackets(c.is_married)

TopRateOf(c) ==
    IF c.fn = "compute_federal_tax"
    THEN federal_top_rate(c.is_married)
    ELSE ca_top_rate(c.is_married)

\* The call's function on another income of the same schedule.
BracketTax(c, income) ==
    IF c.fn = "compute_federal_tax"
    THEN compute_federal_tax(income, c.is_married)
    ELSE compute_ca_tax(income, c.is_married)

PreviousBoundary(brackets, i) == IF i = 1 THEN 0 ELSE brackets[i - 1][1]

\* Reference progressive tax: the first i slices' contributions
\* rate * min(max(income - previousBoundary, 0), boundary - previousBoundary).
RECURSIVE ReferenceSlices(_, _, _)
ReferenceSlices(brackets, i, income) ==
    IF i = 0
    THEN 0
    ELSE ReferenceSlices(brackets, i - 1, income)
         + brackets[i][2]
           * Min(Max(income - PreviousBoundary(brackets, i), 0),
                 brackets[i][1] - PreviousBoundary(brackets, i))

ReferenceTax(brackets, top_rate, income) ==
    ReferenceSlices(brackets, Len(brackets), income)
    + top_rate * Max(income - brackets[Len(brackets)][1], 0)

\* The sum of the first i full slices.
RECURSIVE FullSlices(_, _)
FullSlices(brackets, i) ==
    IF i = 0
    THEN 0
    ELSE FullSlices(brackets, i - 1)
         + (brackets[i][1] - PreviousBoundary(brackets, i)) * brackets[i][2]

\* C1: for each of the four schedules and every taxable income >= 0 the
\* bracket walk returns the reference progressive tax (the sum of every
\* slice's rate x min(max(income - previous, 0), boundary - previous) plus
\* topRate x max(income - lastBoundary, 0)); federal Single at 100,000 is
\* 17,400.00; and the federal and the CA walk are the same algorithm: each
\* gives the other's result on the other's table.
C1_BracketWalkIsProgressiveTax ==
    IsBracketCall =>
        /\ call.result
             = ReferenceTax(ScheduleOf(call), TopRateOf(call), call.arg)
        /\ federal_walk(ScheduleOf(call), TopRateOf(call), call.arg)
             = ca_walk(ScheduleOf(call), TopRateOf(call), call.arg)
        /\ (call.fn = "compute_federal_tax" /\ ~call.is_married
                /\ call.arg = 100000)
             => call.result = 17400000

C1_Witness ==
    /\ call.fn = "compute_federal_tax"
    /\ ~call.is_married
    /\ call.arg = 100000
    /\ call.result = 17400000

\* C6: for each schedule and taxable incomes 0 <= x <= y, tax(x) <= tax(y)
\* and tax(y) - tax(x) <= topRate x (y - x).
C6_BracketTaxMonotoneBoundedByTopRate ==
    IsBracketCall =>
        \A y \in TaxableIncomes :
            y >= call.arg =>
                /\ call.result <= BracketTax(call, y)
                /\ BracketTax(call, y) - call.result
                     <= TopRateOf(call) * (y - call.arg)

C6_Witness ==
    /\ call.fn = "compute_ca_tax"
    /\ ~call.is_married
    /\ call.arg = 625369
    /\ BracketTax(call, 625370) - call.result = 123
    /\ BracketTax(call, 1300000) > call.result

\* C7: no jump at a bracket edge: at an income equal to boundary b the tax is
\* the sum of the full slices up to b; one dollar above b it is higher by
\* one dollar times the next slice's rate (topRate after the last boundary),
\* one dollar below b it is lower by one dollar times b's own rate.
C7_NoJumpAtBracketEdge ==
    IsBracketCall =>
        \A i \in 1..Len(ScheduleOf(call)) :
            call.arg = ScheduleOf(call)[i][1] =>
                /\ call.result = FullSlices(ScheduleOf(call), i)
                /\ BracketTax(call, call.arg + 1) - call.result
                     = (IF i < Len(ScheduleOf(call))
                        THEN ScheduleOf(call)[i + 1][2]
                        ELSE TopRateOf(call))
                /\ call.result - BracketTax(call, call.arg - 1)
                     = ScheduleOf(call)[i][2]

C7_Witness ==
    /\ call.fn = "compute_ca_tax"
    /\ call.is_married
    /\ call.arg = 1250738
    /\ call.result = FullSlices(CAMarriedBrackets, 8)
    /\ BracketTax(call, 1250739) = call.result + 123

\* C8: compute_amt_tax is 0 for amtIncome <= 0, 26% of amtIncome up to
\* 200,000 and 52,000 plus 28% of the excess above; it is 52,000 at 200,000
\* and 80,000 at 300,000, and never negative.
C8_AmtTwoTier ==
    call.fn = "compute_amt_tax" =>
        /\ call.arg <= 0 => call.result = 0
        /\ (0 < call.arg /\ call.arg <= 200000)
             => call.result = call.arg * 260
        /\ call.arg > 200000
             => call.result = 52000000 + (call.arg - 200000) * 280
        /\ call.arg = 200000 => call.result = 52000000
        /\ call.arg = 300000 => call.result = 80000000
        /\ call.result >= 0

C8_Witness ==
    /\ call.fn = "compute_amt_tax"
    /\ call.arg = 300000
    /\ call.result = 80000000

\* C9: for a single filer the slice from 231,251 to 647,850 is taxed at 35%
\* and only income above 647,850 at 37%.
C9_SingleTopBracketAsDocumented ==
    (call.fn = "compute_federal_tax" /\ ~call.is_married) =>
        /\ (231250 <= call.arg /\ call.arg <= 647850)
             => call.result
                  = FullSlices(FederalSingleBrackets, 5)
                    + 350 * (call.arg - 231250)
        /\ call.arg > 647850
             => call.result
                  = FullSlices(FederalSingleBrackets, 5)
                    + 350 * (647850 - 231250) + 370 * (call.arg - 647850)

(***************************************************************************)
(* Properties of the dashboard script (checked under Spec)                 *)
(***************************************************************************)

NumberFields ==
    {"regular_income", "rsu_count", "iso_count", "fmv", "iso_strike_price",
     "amt_credit", "ca_amt_credit"}

\* C2 as stated: a negative entry makes the run fail with an InvalidInput
\* error naming the field, and no projection is produced.
C2_NegativeEntryRaisesInvalidInput ==
    refused # "none" =>
        /\ error.kind = "InvalidInput"
        /\ error.field = refused
        /\ "total_additional_due" \notin DOMAIN g

\* C2 amended: a negative value never reaches the calculations: every
\* number_input has min_value 0, so all seven fields are >= 0 whenever the
\* script runs; the script raises no error, and the projection it holds is
\* the one computed from those non-negative values.
C2_NegativeEntryNeverReachesCalculations ==
    /\ \A f \in NumberFields : w[f] >= 0
    /\ error.kind = "none"
    /\ g = Calculations(w)

C2_Witness ==
    /\ refused = "regular_income"
    /\ w.regular_income = 100000
    /\ g.regular_income = 100000
    /\ "total_additional_due" \in DOMAIN g

\* C3: totalFederalTax is the greater of regularFederalTax and
\* tentativeAmtTax - federalAmtCreditAvailable; additionalFederalTax is
\* positive exactly when the AMT net of the credit exceeds the regular tax
\* and 0 otherwise; Single, 150,000 regular income, 1,000 RSUs at 50, no
\* ISOs, no credits: tentativeAmtTax 30,940 and additionalFederalTax 0.
C3_TotalFederalIsGreaterOfRegularAndNetAmt ==
    LET net_amt == g.amt_tax - FromDollars(w.amt_credit)
    IN  /\ g.total_federal_tax = Max(g.regular_federal_tax, net_amt)
        /\ g.additional_federal_tax > 0 <=> net_amt > g.regular_federal_tax
        /\ g.additional_federal_tax
             = (IF net_amt > g.regular_federal_tax
                THEN net_amt - g.regular_federal_tax
                ELSE 0)
        /\ (/\ ~w.is_married
            /\ w.regular_income = 150000
            /\ w.rsu_count = 1000
            /\ w.fmv = 50
            /\ w.iso_count = 0
            /\ w.amt_credit = 0)
             => /\ g.amt_tax = FromDollars(30940)
                /\ g.additional_federal_tax = 0

C3_Witness ==
    /\ ~w.is_married
    /\ w.regular_income = 150000
    /\ w.rsu_count = 1000
    /\ w.fmv = 50
    /\ w.iso_count = 0
    /\ w.amt_credit = 0
    /\ w.ca_amt_credit = 0
    /\ g.regular_federal_tax > g.amt_tax
    /\ g.total_federal_tax = g.regular_federal_tax

\* C4: the ISO adjustment enters amtIncome but not federalTaxableIncome: any
\* other iso_count and iso_strike_price leave federalTaxableIncome,
\* regularFederalTax, federalWithholding and caWithholding the same, while
\* amtIncome is max(0, regularIncome + rsuIncome + isoAdjustment - exemption);
\* 100,000 regular income, 1,000 ISOs, FMV 60, strike 10: the adjustment is
\* 50,000 and is in amtIncome only.
C4_IsoAdjustmentOnlyInAmtIncome ==
    /\ \A ic \in {x \in UnitCountEntries : x >= 0},
          sp \in {x \in StrikeEntries : x >= 0} :
           LET o == Calculations([w EXCEPT !.iso_count = ic,
                                           !.iso_strike_price = sp])
           IN  /\ o.federal_taxable_income = g.federal_taxable_income
               /\ o.regular_federal_tax = g.regular_federal_tax
               /\ o.federal_withholding = g.federal_withholding
               /\ o.ca_withholding = g.ca_withholding
    /\ g.iso_adjustment = w.iso_count * Max(0, w.fmv - w.iso_strike_price)
    /\ g.amt_income
         = Max(0, w.regular_income + w.rsu_count * w.fmv + g.iso_adjustment
                  - (IF w.is_married THEN 126500 ELSE 81000))
    /\ (/\ ~w.is_married
        /\ w.regular_income = 100000
        /\ w.rsu_count = 0
        /\ w.iso_count = 1000
        /\ w.fmv = 60
        /\ w.iso_strike_price = 10)
         => /\ g.iso_adjustment = 50000
            /\ g.amt_income = 69000
            /\ g.federal_taxable_income = 86000

C4_Witness ==
    /\ ~w.is_married
    /\ w.regular_income = 100000
    /\ w.rsu_count = 0
    /\ w.iso_count = 1000
    /\ w.fmv = 60
    /\ w.iso_strike_price = 10
    /\ g.iso_adjustment = 50000
    /\ g.amt_income = 69000
    /\ g.federal_taxable_income = 86000

\* C5: the balance-due figures are not clamped at zero: additionalFederalDue
\* is totalFederalTax - federalWithholding and additionalStateDue is
\* caTaxLiabilityAfterCredit - caWithholding exactly, strictly negative
\* whenever the withholding exceeds the tax, and totalAdditionalDue is their
\* plain sum.
C5_BalanceDueNotClamped ==
    /\ g.additional_federal_due = g.total_federal_tax - g.federal_withholding
    /\ g.additional_state_due
         = g.ca_tax_liability_after_credit - g.ca_withholding
    /\ g.federal_withholding > g.total_federal_tax
         => g.additional_federal_due < 0
    /\ g.ca_withholding > g.ca_tax_liability_after_credit
         => g.additional_state_due < 0
    /\ g.total_additional_due
         = g.additional_federal_due + g.additional_state_due

C5_Witness ==
    /\ g.federal_withholding > g.total_federal_tax
    /\ g.ca_withholding > g.ca_tax_liability_after_credit
    /\ g.additional_federal_due < 0
    /\ g.additional_state_due < 0
    /\ g.total_additional_due < 0

\* C10: with the same numeric inputs the MarriedFilingJointly run never owes
\* more than the Single run: regularFederalTax, tentativeAmtTax,
\* totalFederalTax, caTaxLiability and caTaxLiabilityAfterCredit are each <=
\* the Single values, the withholdings are the same, and totalAdditionalDue
\* is <= the Single value.
C10_MarriedNeverOwesMoreThanSingle ==
    LET single == Calculations([w EXCEPT !.is_married = FALSE])
        married == Calculations([w EXCEPT !.is_married = TRUE])
    IN  /\ g = (IF w.is_married THEN married ELSE single)
        /\ married.regular_federal_tax <= single.regular_federal_tax
        /\ married.amt_tax <= single.amt_tax
        /\ married.total_federal_tax <= single.total_federal_tax
        /\ married.ca_tax_liability <= single.ca_tax_liability
        /\ married.ca_tax_liability_after_credit
             <= single.ca_tax_liability_after_credit
        /\ married.federal_withholding = single.federal_withholding
        /\ married.ca_withholding = single.ca_withholding
        /\ married.total_additional_due <= single.total_additional_due

C10_Witness ==
    /\ w.is_married
    /\ w.iso_count > 0
    /\ g.regular_federal_tax > 0
    /\ g.additional_federal_tax > 0
    /\ g.total_additional_due
         < Calculations([w EXCEPT !.is_married = FALSE]).total_additional_due

====
